---------------------------- MODULE Spec2Model ----------------------------
(***************************************************************************)
(* Model of app.py, the committee bill dashboard: one Streamlit script     *)
(* run ("interaction") reads its configuration and widgets, fetches the    *)
(* bill rows page by page behind a 600 second cache, builds the display    *)
(* frame, filters it and renders three views.                              *)
(*                                                                         *)
(* Spec     : the interaction, the paginated fetch and the cache.          *)
(* NormSpec : build_dataframe / render_table on one raw record.            *)
(* ViewSpec : build_dataframe, filter_dataframe and the three views on a   *)
(*            small frame.                                                 *)
(***************************************************************************)
EXTENDS Integers, Sequences, FiniteSets, TLC

(***************************************************************************)
(* Python values.  A value is a record tagged with its kind: None, a str   *)
(* (a sequence of one-character strings), a pandas Timestamp (day ordinal  *)
(* and time of day), NaT, or some other object (a number).                 *)
(***************************************************************************)
None == [kind |-> "None"]

NaT == [kind |-> "NaT"]

Str(s) == [kind |-> "str", s |-> s]

Ts(day, tod) == [kind |-> "ts", day |-> day, tod |-> tod]

Num(n) == [kind |-> "num", n |-> n]

IsStr(v) == v.kind = "str"

IsNull(v) == v.kind \in {"None", "NaT"}

\* Python truthiness: None and "" are falsy, 0 is falsy, the rest truthy.
Truthy(v) ==
    CASE v.kind = "None" -> FALSE
      [] v.kind = "NaT"  -> TRUE
      [] v.kind = "str"  -> v.s # <<>>
      [] v.kind = "num"  -> v.n # 0
      [] OTHER           -> TRUE

\* a or b
PyOr(a, b) == IF Truthy(a) THEN a ELSE b

---------------------------------------------------------------------------
(***************************************************************************)
(* Bounds of the model.                                                    *)
(***************************************************************************)
MaxPageSize == 2

MaxMaxPages == 2

MaxSourceRows == 5

MaxRuns == 2

MaxTicks == 1

\* st.cache_data(ttl=600), line 93
TTL == 600

\* NA_ASSEMBLY_AGE default, line 38
DEFAULT_AGE == 22

\* The widget values tried: the smallest and the largest.
PageSizes == {1, MaxPageSize}

MaxPagesChoices == {1, MaxMaxPages}

\* The clock advances between two script runs by one of these amounts.
TickSteps == {TTL - 1, TTL}

Keys == {Str(<<"k", "1">>)}

\* What os.getenv("NA_OPEN_API_KEY") can give.
EnvValues == {None, Str(<<>>), Str(<<"k", "1">>)}

\* What st.secrets["NA_OPEN_API_KEY"] can give; Missing raises inside the try.
Missing == [kind |-> "missing"]

SecretValues == {Missing, Str(<<>>), Str(<<"k", "1">>)}

VARIABLES
    pc,              \* position of the script run
    API_KEY,         \* module global, line 37
    page_size,       \* sidebar widget
    max_pages,       \* sidebar widget
    clicked_refresh, \* sidebar button
    cache,           \* st.cache_data store of fetch_all_rows
    clock,           \* wall clock, seconds
    source,          \* the remote data set during one fetch
    p,               \* loop variable of fetch_all_rows
    acc,             \* accumulator of fetch_all_rows
    total,           \* counter of fetch_all_rows
    result,          \* (rows, total_cnt, fetched_at) of line 338
    err,             \* the exception caught at line 339
    events,          \* history: cache and network events of this run
    served,          \* history: row counts of the pages served in this run
    hist,            \* history: last network fetch per parameter tuple since the last refresh
    dropped,         \* history: the tuples that were cached when this run's refresh cleared
    runs,            \* number of script runs so far
    ticks,           \* number of clock advances so far
    notices,         \* which of the three views show the no-data notice
    raw,             \* NormSpec: the raw record
    row,             \* NormSpec: its row in the frame
    shown,           \* NormSpec: the cells render_table shows for it
    rawRows,         \* ViewSpec: the fetched rows
    df_all,          \* ViewSpec: line 346
    committee,       \* ViewSpec: sidebar widget
    start_date,      \* ViewSpec: sidebar widget
    search_kw,       \* ViewSpec: sidebar widget
    df,              \* ViewSpec: line 351
    now,             \* ViewSpec: line 355
    df_week,         \* ViewSpec: line 359
    buckets,         \* ViewSpec: the groups of line 369, in display order
    df_full          \* ViewSpec: the frame of line 377

fetchVarsButPc == <<API_KEY, page_size, max_pages, clicked_refresh, cache, clock,
                    source, p, acc, total, result, err, events, served, hist, dropped,
                    runs, ticks>>

fetchVars == <<pc, fetchVarsButPc>>

normVars == <<raw, row, shown>>

viewVars == <<rawRows, df_all, committee, start_date, search_kw, df, now, df_week,
              buckets, df_full>>

vars == <<fetchVars, notices, normVars, viewVars>>

---------------------------------------------------------------------------
(***************************************************************************)
(* Configuration: env_or_secret, lines 25-38.                              *)
(***************************************************************************)
env_or_secret(envVal, secretVal, default) ==
    IF envVal # None /\ envVal # Str(<<>>)
    THEN envVal
    ELSE IF secretVal = Missing THEN default ELSE secretVal

(***************************************************************************)
(* The cache of st.cache_data: one entry per argument tuple, valid for     *)
(* ttl seconds after it was stored; clear() drops every entry.             *)
(***************************************************************************)
CacheKeys == {DEFAULT_AGE} \X Keys \X PageSizes \X MaxPagesChoices

NoEntry == [present |-> FALSE]

Entry(value, at) == [present |-> TRUE, value |-> value, at |-> at]

CacheKey(age, key, size, maxp) == <<age, key, size, maxp>>

EmptyCache == [k \in CacheKeys |-> NoEntry]

\* A clear() that drops only the entry of the current argument tuple.
CacheClearOnlyCurrent(c) ==
    [k \in CacheKeys |->
        IF k = <<DEFAULT_AGE, API_KEY, page_size, max_pages>> THEN NoEntry ELSE c[k]]

CacheClear(c) == EmptyCache

\* An entry that is still valid at the very end of its ttl.
CacheHitInclusive(c, k, t) == c[k].present /\ t <= c[k].at + TTL

CacheHit(c, k, t) == c[k].present /\ t < c[k].at + TTL

CacheStore(c, k, value, t) == [c EXCEPT ![k] = Entry(value, t)]

(***************************************************************************)
(* The remote source.  A table source holds n rows, numbered 1..n, and     *)
(* serves page k of size s as rows (k-1)*s+1 .. min(k*s, n).  A scripted   *)
(* source answers page k with a number of rows of its own choosing.  The   *)
(* source and the configuration do not change during a behaviour.          *)
(***************************************************************************)
Min(a, b) == IF a < b THEN a ELSE b

Max(a, b) == IF a > b THEN a ELSE b

Table(n) == [table |-> TRUE, n |-> n, script |-> <<>>]

Scripted(f) == [table |-> FALSE, n |-> 0, script |-> f]

\* Sources that follow no table: page k is answered with script[k] rows.
Scripts == [1..MaxMaxPages -> {0, 1, MaxPageSize + 1}]

Sources == {Table(n) : n \in 0..MaxSourceRows} \cup {Scripted(f) : f \in Scripts}

\* the rows numbered from..from+cnt-1
RowsFrom(from, cnt) == [i \in 1..cnt |-> from + i - 1]

PageCount(src, page, size) ==
    IF src.table
    THEN Max(0, Min(size, src.n - (page - 1) * size))
    ELSE src.script[page]

\* The rows the source serves for page `page` of size `size`.
PageRows(src, page, size) == RowsFrom((page - 1) * size + 1, PageCount(src, page, size))

\* RESULT.CODE values of the API; "none" is a response without a RESULT block.
OkCodes == {"INFO-000", "none"}

BadCodes == {"INFO-200", "ERROR-300", "http"}

(***************************************************************************)
(* _fetch_page, lines 79-91: the rows of the page, or the exception.       *)
(***************************************************************************)
Raised(code) == [ok |-> FALSE, code |-> code, rows |-> <<>>]

Returned(rows) == [ok |-> TRUE, code |-> "INFO-000", rows |-> rows]

\* A _fetch_page that takes INFO-200 ("no data") for a success.
fetch_page_lenient(code, rows) ==
    IF code = "http" THEN Raised(code)
    ELSE IF code \notin {"none", "INFO-000", "INFO-200"} THEN Raised(code)
    ELSE Returned(rows)

fetch_page(code, rows) ==
    IF code = "http" THEN Raised(code)                      \* raise_for_status
    ELSE IF code # "none" /\ code # "INFO-000" THEN Raised(code)
    ELSE Returned(rows)

---------------------------------------------------------------------------
(***************************************************************************)
(* Dates.  A Timestamp is a day ordinal (days since 2024-01-01) and a time *)
(* of day: 0 is midnight, 1 is any later moment of that day.               *)
(***************************************************************************)
IsLeap(y) == (y % 4 = 0 /\ y % 100 # 0) \/ y % 400 = 0

DaysInMonth(y, m) ==
    IF m = 2 THEN (IF IsLeap(y) THEN 29 ELSE 28)
    ELSE IF m \in {4, 6, 9, 11} THEN 30 ELSE 31

RECURSIVE DaysBeforeMonth(_, _)
DaysBeforeMonth(y, m) == IF m = 1 THEN 0 ELSE DaysBeforeMonth(y, m - 1) + DaysInMonth(y, m - 1)

RECURSIVE DaysBeforeYear(_)
DaysBeforeYear(y) ==
    IF y <= 2024 THEN 0 ELSE DaysBeforeYear(y - 1) + (IF IsLeap(y - 1) THEN 366 ELSE 365)

Day(y, m, d) == DaysBeforeYear(y) + DaysBeforeMonth(y, m) + d - 1

Years == {2024, 2025}

\* to_period("M").astype(str): "YYYY-MM", kept as the number YYYYMM, whose
\* order is the order of the strings.
YearMonth(day) ==
    LET ym == CHOOSE q \in Years \X (1..12) :
                 /\ Day(q[1], q[2], 1) <= day
                 /\ day < Day(q[1], q[2], 1) + DaysInMonth(q[1], q[2])
    IN ym[1] * 100 + ym[2]

TsLE(a, b) == a.day < b.day \/ (a.day = b.day /\ a.tod <= b.tod)

\* column >= ts, elementwise: a comparison with NaT or None is False
GE(v, ts) == v.kind = "ts" /\ TsLE(ts, v)

\* K22_START = pd.Timestamp("2024-05-30"), line 45
K22_START == Ts(Day(2024, 5, 30), 0)

\* The date strings of the model and the day each one parses to.
DateTable ==
    ("2024-04-30" :> Day(2024, 4, 30)) @@
    ("2024-05-29" :> Day(2024, 5, 29)) @@
    ("2024-05-30" :> Day(2024, 5, 30)) @@
    ("2024-06-01" :> Day(2024, 6, 1)) @@
    ("2024-06-02" :> Day(2024, 6, 2)) @@
    ("2024-06-03" :> Day(2024, 6, 3)) @@
    ("2024-06-04" :> Day(2024, 6, 4)) @@
    ("2024-06-05" :> Day(2024, 6, 5)) @@
    ("2024-06-08" :> Day(2024, 6, 8)) @@
    ("2024-06-09" :> Day(2024, 6, 9)) @@
    ("2024-06-10" :> Day(2024, 6, 10)) @@
    ("2024-06-15" :> Day(2024, 6, 15)) @@
    ("2025-01-02" :> Day(2025, 1, 2))

DateStr(token) == Str(<<token>>)

\* pd.to_datetime(value, errors="coerce") on one cell
to_datetime(v) ==
    IF IsStr(v) /\ Len(v.s) = 1 /\ v.s[1] \in DOMAIN DateTable
    THEN Ts(DateTable[v.s[1]], 0)
    ELSE NaT

\* Timestamp.strftime("%Y-%m-%d") on one cell; NaT gives NaN
strftime(v) ==
    IF v.kind = "ts"
    THEN DateStr(CHOOSE t \in DOMAIN DateTable : DateTable[t] = v.day)
    ELSE None

(***************************************************************************)
(* Strings.                                                                *)
(***************************************************************************)
IsSpace(c) == c = " "

RECURSIVE LStrip(_)
LStrip(s) == IF s # <<>> /\ IsSpace(Head(s)) THEN LStrip(Tail(s)) ELSE s

RECURSIVE RStrip(_)
RStrip(s) ==
    IF s # <<>> /\ IsSpace(s[Len(s)]) THEN RStrip(SubSeq(s, 1, Len(s) - 1)) ELSE s

\* str.strip()
Strip(s) == RStrip(LStrip(s))

Lower(c) == IF c = "A" THEN "a" ELSE IF c = "B" THEN "b" ELSE c

\* str(value) inside an f-string
ToStr(v) == IF IsStr(v) THEN v.s ELSE <<"<obj>">>

\* re.compile(pat): an opening parenthesis that is never closed is an error.
RECURSIVE OpenParens(_, _)
OpenParens(pat, depth) ==
    IF pat = <<>> THEN depth
    ELSE IF depth < 0 THEN depth
    ELSE IF Head(pat) = "(" THEN OpenParens(Tail(pat), depth + 1)
    ELSE IF Head(pat) = ")" THEN OpenParens(Tail(pat), depth - 1)
    ELSE OpenParens(Tail(pat), depth)

RegexValid(pat) == OpenParens(pat, 0) = 0

\* One pattern character against one text character under re.IGNORECASE:
\* "." matches any character, every other character of the model's alphabet
\* matches itself.
RegexCharMatch(pc1, tc) == pc1 = "." \/ Lower(pc1) = Lower(tc)

\* pattern.match at offset i
MatchAt(text, pat, i) ==
    /\ i + Len(pat) - 1 <= Len(text)
    /\ \A j \in 1..Len(pat) : RegexCharMatch(pat[j], text[i + j - 1])

\* Series.str.contains(pat, case=False) on one cell (regex=True is the default)
str_contains(text, pat) ==
    \E i \in 1..(Len(text) + 1) : MatchAt(text, pat, i)

\* fillna("").astype(str) on one cell
FillStr(v) == IF IsNull(v) THEN <<>> ELSE ToStr(v)

(***************************************************************************)
(* Raw records: a mapping from the API's field names to values.  r.get(k)  *)
(* is None for an absent key as for a key holding None.                    *)
(***************************************************************************)
RawKeys == {"BILL_NAME", "PROPOSE_DT", "RST_PROPOSER", "PROPOSER", "CMT_PRESENT_DT",
            "CMT_PROC_DT", "CMT_PROC_RESULT_CD", "DETAIL_LINK", "BILL_ID", "COMMITTEE"}

Get(r, k) == IF k \in DOMAIN r THEN r[k] ELSE None

DETAIL_BASE == "https://likms.assembly.go.kr/bill/billDetail.do?billId="

\* lines 72-77
bill_detail_link(rec) ==
    LET link == Get(rec, "DETAIL_LINK")
        bill_id == Get(rec, "BILL_ID")
    IN IF Truthy(link) /\ IsStr(link) /\ Strip(link.s) # <<>>
       THEN link
       ELSE IF Truthy(bill_id) THEN Str(<<DETAIL_BASE>> \o ToStr(bill_id)) ELSE Str(<<>>)

\* One row of the frame of lines 112-126; idx is the row's index label.
BuildRow(r, idx) ==
    [ idx         |-> idx,
      name        |-> Get(r, "BILL_NAME"),
      proposed    |-> to_datetime(Get(r, "PROPOSE_DT")),
      sponsor     |-> PyOr(Get(r, "RST_PROPOSER"), Get(r, "PROPOSER")),
      cmt_present |-> to_datetime(Get(r, "CMT_PRESENT_DT")),
      cmt_proc    |-> to_datetime(Get(r, "CMT_PROC_DT")),
      cmt_result  |-> Get(r, "CMT_PROC_RESULT_CD"),
      link        |-> bill_detail_link(r),
      committee   |-> Get(r, "COMMITTEE") ]

\* Whether row a may stand before row b when sorted by "proposed" descending
\* with NaT last.
MayPrecede(a, b) ==
    \/ b.proposed.kind = "NaT"
    \/ (a.proposed.kind = "ts" /\ TsLE(b.proposed, a.proposed))

\* The arrangements of the rows f[i], i in S, that are sorted that way.
RECURSIVE Arrange(_, _)
Arrange(f, S) ==
    IF S = {} THEN {<<>>}
    ELSE UNION { {<<f[i]>> \o rest : rest \in Arrange(f, S \ {i})} :
                 i \in {k \in S : \A j \in S : MayPrecede(f[k], f[j])} }

\* sort_values("proposed", ascending=False): dates descending, NaT last; the
\* order among equal keys is not fixed by the default (unstable) sort.
sort_values(f) == Arrange(f, 1..Len(f))

\* lines 108-132: the frames build_dataframe may return for `rows`
build_dataframe(rows) ==
    IF rows = <<>> THEN {<<>>}
    ELSE sort_values([i \in 1..Len(rows) |-> BuildRow(rows[i], i - 1)])

\* line 150 raises re.error when the keyword is no valid pattern
filter_raises(frame, cmt, start, kw) ==
    frame # <<>> /\ Truthy(kw) /\ ~RegexValid(kw.s)

KeywordMask(r, kw) == str_contains(FillStr(r.name), kw) \/ str_contains(FillStr(r.sponsor), kw)

\* lines 134-152
filter_dataframe(frame, cmt, start, kw) ==
    IF frame = <<>> THEN frame
    ELSE LET start_ts == IF Truthy(start) THEN start ELSE K22_START
             InCommittee(r) == r.committee = cmt
             FromStart(r) == GE(r.proposed, start_ts)
             HasKeyword(r) == KeywordMask(r, kw.s)
             d1 == IF Truthy(cmt) THEN SelectSeq(frame, InCommittee) ELSE frame
             d2 == SelectSeq(d1, FromStart)
             d3 == IF Truthy(kw) THEN SelectSeq(d2, HasKeyword) ELSE d2
         IN d3

\* line 356
one_week_ago(t) == Ts(t.day - 7, t.tod)

\* line 359
week_view(frame, t) ==
    LET Recent(r) == GE(r.proposed, one_week_ago(t)) IN SelectSeq(frame, Recent)

RECURSIVE SortDescSeq(_)
SortDescSeq(S) ==
    IF S = {} THEN <<>>
    ELSE LET m == CHOOSE x \in S : \A y \in S : y <= x IN <<m>> \o SortDescSeq(S \ {m})

\* The key of the "NaT" group: as a string it sorts after every "YYYY-MM".
NaTPeriod == 999999

\* line 367: dt.to_period("M").astype(str) on one cell
PeriodKey(v) == IF v.kind = "ts" THEN YearMonth(v.day) ELSE NaTPeriod

\* lines 366-369: the groups of groupby("YYYY-MM"), latest month first
month_buckets(frame) ==
    LET yms == {PeriodKey(frame[i].proposed) : i \in 1..Len(frame)}
        order == SortDescSeq(yms)
        Bucket(ym) == LET In(r) == PeriodKey(r.proposed) = ym
                      IN [ym |-> ym, rows |-> SelectSeq(frame, In)]
    IN [i \in 1..Len(order) |-> Bucket(order[i])]

\* lines 160-162: render_table shows the notice instead of a table
shows_notice(frame) == frame = <<>>

PLACEHOLDER == Str(<<"-">>)

fillna(v) == IF IsNull(v) THEN PLACEHOLDER ELSE v

\* lines 182-185
link_cell(url) ==
    IF IsStr(url) /\ Truthy(url) /\ url # PLACEHOLDER THEN Str(<<"<a>">> \o url.s) ELSE PLACEHOLDER

\* lines 164-185: the cells render_table shows for one row of the frame
display_row(r) ==
    [ name        |-> fillna(r.name),
      proposed    |-> fillna(strftime(r.proposed)),
      sponsor     |-> fillna(r.sponsor),
      cmt_present |-> fillna(strftime(r.cmt_present)),
      cmt_proc    |-> fillna(strftime(r.cmt_proc)),
      cmt_result  |-> fillna(r.cmt_result),
      link        |-> link_cell(fillna(r.link)) ]

NoResult == [rows |-> <<>>, total |-> 0, fetched_at |-> 0, set |-> FALSE]

Result(rows, tot, at) == [rows |-> rows, total |-> tot, fetched_at |-> at, set |-> TRUE]

Ev(e, page, code) == [e |-> e, page |-> page, code |-> code]

NoHist == [done |-> FALSE, at |-> 0, value |-> NoResult]

NoNotices == [week |-> FALSE, month |-> FALSE, full |-> FALSE]

\* How a script run can end: st.stop() after st.error (line 329), after
\* st.exception (line 341), after st.warning (line 349), an exception nobody
\* catches (line 351), or the end of the script (line 379).
Terminal == {"halt_nokey", "error", "nodata", "uncaught", "done"}

(***************************************************************************)
(* Inputs of the model.                                                    *)
(***************************************************************************)
Raw(name, date, sponsor, cmte) ==
    [ BILL_NAME |-> name, PROPOSE_DT |-> date, RST_PROPOSER |-> sponsor,
      PROPOSER |-> None, CMT_PRESENT_DT |-> None, CMT_PROC_DT |-> None,
      CMT_PROC_RESULT_CD |-> None, DETAIL_LINK |-> None, BILL_ID |-> None,
      COMMITTEE |-> cmte ]

CmteA == Str(<<"A">>)

CmteB == Str(<<"B">>)

\* The bill that the source holds as row number `id`: the bills differ in
\* their proposal dates, one has none.
CatalogueDates ==
    << "2024-06-05", "2024-05-29", "2024-06-15", "2024-06-03", "2024-05-30", "2024-06-10",
       "2024-04-30", "2024-06-01", "2024-06-02", "2024-06-04", "2024-06-08", "2024-06-09",
       "2025-01-02" >>

CatalogueNames == << Str(<<"a", "B">>), Str(<<"b", ".">>), None >>

CatalogueSponsors == << Str(<<"b">>), None >>

RowOf(id) ==
    Raw(CatalogueNames[((id - 1) % Len(CatalogueNames)) + 1],
        IF id % 7 = 0 THEN None
        ELSE DateStr(CatalogueDates[((id - 1) % Len(CatalogueDates)) + 1]),
        CatalogueSponsors[((id - 1) % Len(CatalogueSponsors)) + 1],
        IF id % 4 = 0 THEN CmteB ELSE CmteA)

Committees == {Str(<<>>), CmteA}

StartDates == {None, Ts(Day(2024, 5, 30), 0), Ts(Day(2024, 6, 5), 0)}

Keywords == {Str(<<>>), Str(<<"A">>), Str(<<"a", "b">>), Str(<<".">>), Str(<<"(">>)}

Nows == {Ts(Day(2024, 6, 10), 0), Ts(Day(2024, 6, 10), 1), Ts(Day(2024, 6, 20), 1)}

NormIdle ==
    /\ raw = Raw(None, None, None, None)
    /\ row = BuildRow(Raw(None, None, None, None), 0)
    /\ shown = display_row(BuildRow(Raw(None, None, None, None), 0))

ViewIdle ==
    /\ rawRows = <<>>
    /\ df_all = <<>>
    /\ committee = Str(<<>>)
    /\ start_date = None
    /\ search_kw = Str(<<>>)
    /\ df = <<>>
    /\ now = Ts(0, 0)
    /\ df_week = <<>>
    /\ buckets = <<>>
    /\ df_full = <<>>

FetchIdle ==
    /\ API_KEY = None
    /\ page_size = 1
    /\ max_pages = 1
    /\ clicked_refresh = FALSE
    /\ cache = EmptyCache
    /\ clock = 0
    /\ source = Table(0)
    /\ p = 1
    /\ acc = <<>>
    /\ total = 0
    /\ result = NoResult
    /\ err = "none"
    /\ events = <<>>
    /\ served = <<>>
    /\ hist = [k \in CacheKeys |-> NoHist]
    /\ dropped = {}
    /\ runs = 0
    /\ ticks = 0
    /\ notices = NoNotices

---------------------------------------------------------------------------
(***************************************************************************)
(* Spec: the script runs of one server process.                            *)
(***************************************************************************)
Init ==
    /\ pc = "idle"
    /\ \E e \in EnvValues, s \in SecretValues : API_KEY = env_or_secret(e, s, None)
    /\ page_size = 1
    /\ max_pages = 1
    /\ clicked_refresh = FALSE
    /\ cache = EmptyCache
    /\ clock = 0
    /\ source \in Sources
    /\ p = 1
    /\ acc = <<>>
    /\ total = 0
    /\ result = NoResult
    /\ err = "none"
    /\ events = <<>>
    /\ served = <<>>
    /\ hist = [k \in CacheKeys |-> NoHist]
    /\ dropped = {}
    /\ runs = 0
    /\ ticks = 0
    /\ notices = NoNotices
    /\ NormIdle
    /\ ViewIdle

\* Time passes between two script runs.
Tick ==
    /\ pc \in Terminal \cup {"idle"}
    /\ ticks < MaxTicks
    /\ \E d \in TickSteps : clock' = clock + d
    /\ ticks' = ticks + 1
    /\ UNCHANGED <<pc, API_KEY, page_size, max_pages, clicked_refresh, cache,
                   source, p, acc, total, result, err, events, served, hist, dropped,
                   runs, notices, normVars, viewVars>>

\* A script run starts: the widgets are read (lines 59-66).
Rerun ==
    /\ pc \in Terminal \cup {"idle"}
    /\ runs < MaxRuns
    /\ runs' = runs + 1
    /\ page_size' \in PageSizes
    /\ max_pages' \in MaxPagesChoices
    /\ clicked_refresh' \in BOOLEAN
    /\ pc' = "check_key"
    /\ p' = 1
    /\ acc' = <<>>
    /\ total' = 0
    /\ result' = NoResult
    /\ err' = "none"
    /\ events' = <<>>
    /\ served' = <<>>
    /\ notices' = NoNotices
    /\ dropped' = {}
    /\ UNCHANGED <<API_KEY, cache, clock, source, hist, ticks, normVars, viewVars>>

\* A key check that tests for None only.
CheckKeyNoneOnly ==
    /\ pc = "check_key"
    /\ pc' = IF API_KEY = None THEN "halt_nokey" ELSE "refresh"
    /\ UNCHANGED <<API_KEY, page_size, max_pages, clicked_refresh, cache, clock,
                   source, p, acc, total, result, err, events, served, hist, dropped,
                   runs, ticks, notices, normVars, viewVars>>

\* Lines 327-329.
CheckKey ==
    /\ pc = "check_key"
    /\ pc' = IF ~Truthy(API_KEY) THEN "halt_nokey" ELSE "refresh"
    /\ UNCHANGED <<API_KEY, page_size, max_pages, clicked_refresh, cache, clock,
                   source, p, acc, total, result, err, events, served, hist, dropped,
                   runs, ticks, notices, normVars, viewVars>>

\* Lines 332-333.
Refresh ==
    /\ pc = "refresh"
    /\ IF clicked_refresh
       THEN /\ cache' = CacheClear(cache)
            /\ hist' = [k \in CacheKeys |-> NoHist]
            /\ dropped' = {k \in CacheKeys : cache[k].present}
            /\ events' = Append(events, Ev("clear", 0, ""))
       ELSE UNCHANGED <<cache, hist, dropped, events>>
    /\ pc' = "call"
    /\ UNCHANGED <<API_KEY, page_size, max_pages, clicked_refresh, clock,
                   source, p, acc, total, result, err, served, runs, ticks,
                   notices, normVars, viewVars>>

ThisKey == CacheKey(DEFAULT_AGE, API_KEY, page_size, max_pages)

\* Line 338 through the cache wrapper of line 93: a valid entry is returned,
\* otherwise the body of fetch_all_rows starts (line 96).
CallFetch ==
    /\ pc = "call"
    /\ IF CacheHit(cache, ThisKey, clock)
       THEN /\ result' = cache[ThisKey].value
            /\ pc' = "fetched"
            /\ events' = Append(events, Ev("hit", 0, ""))
            /\ UNCHANGED <<p, acc, total>>
       ELSE /\ p' = 1
            /\ acc' = <<>>
            /\ total' = 0
            /\ pc' = IF 1 <= max_pages THEN "loop" ELSE "return"
            /\ events' = Append(events, Ev("miss", 0, ""))
            /\ UNCHANGED result
    /\ UNCHANGED <<API_KEY, page_size, max_pages, clicked_refresh, cache, clock,
                   source, err, served, hist, dropped, runs, ticks, notices, normVars,
                   viewVars>>

\* A loop that stops on an empty page only.
AfterPageNoShortBreak(n, page, size, maxp) ==
    IF n = 0 THEN "return"
    ELSE IF page + 1 <= maxp THEN "loop"
    ELSE "return"

\* Where the loop of lines 97-104 goes after a page of n rows.
AfterPage(n, page, size, maxp) ==
    IF n = 0 THEN "return"
    ELSE IF n < size THEN "return"
    ELSE IF page + 1 <= maxp THEN "loop"
    ELSE "return"

\* An accumulator that puts the new page in front.
ExtendInFront(a, rows) == rows \o a

\* acc.extend(rows), line 102
Extend(a, rows) == a \o rows

\* One iteration of the loop of lines 97-104.
FetchPage ==
    /\ pc = "loop"
    /\ \E code \in OkCodes \cup BadCodes :
         LET r == fetch_page(code, PageRows(source, p, page_size)) IN
         /\ events' = Append(events, Ev("req", p, IF code \in BadCodes THEN code ELSE "ok"))
         /\ IF ~r.ok
            THEN /\ err' = r.code
                 /\ pc' = "error"              \* lines 339-341
                 /\ UNCHANGED <<p, acc, total, served>>
            ELSE /\ served' = Append(served, Len(r.rows))
                 /\ total' = IF r.rows = <<>> THEN total ELSE total + Len(r.rows)
                 /\ acc' = IF r.rows = <<>> THEN acc ELSE Extend(acc, r.rows)
                 /\ pc' = AfterPage(Len(r.rows), p, page_size, max_pages)
                 /\ p' = IF AfterPage(Len(r.rows), p, page_size, max_pages) = "loop"
                         THEN p + 1 ELSE p
                 /\ UNCHANGED err
    /\ UNCHANGED <<API_KEY, page_size, max_pages, clicked_refresh, cache, clock,
                   source, result, hist, dropped, runs, ticks, notices, normVars, viewVars>>

\* Lines 105-106 and the cache wrapper storing the value.
Return ==
    /\ pc = "return"
    /\ result' = Result(acc, total, clock)
    /\ cache' = CacheStore(cache, ThisKey, Result(acc, total, clock), clock)
    /\ hist' = [hist EXCEPT ![ThisKey] =
                  [done |-> TRUE, at |-> clock, value |-> Result(acc, total, clock)]]
    /\ events' = Append(events, Ev("store", 0, ""))
    /\ pc' = "fetched"
    /\ UNCHANGED <<API_KEY, page_size, max_pages, clicked_refresh, clock,
                   source, p, acc, total, err, served, dropped, runs, ticks,
                   notices, normVars, viewVars>>

\* The notices of lines 358-377 for the filtered frame d at time t.
NoticesOf(d, t) ==
    [week |-> shows_notice(week_view(d, t)), month |-> d = <<>>, full |-> shows_notice(d)]

\* The widget values and the time of day tried by Render.
RenderInputs ==
    Committees \X {None, Ts(Day(2024, 6, 6), 0)}
               \X {Str(<<>>), Str(<<"a", "b">>), Str(<<"(">>)}
               \X {Ts(Day(2024, 6, 10), 1), Ts(Day(2025, 1, 20), 1)}

\* Lines 351-379 on the frame f with the widget values c, sd, kw at time t:
\* where the script ends and which notices it shows.
RenderOutcome(f, c, sd, kw, t) ==
    IF filter_raises(f, c, sd, kw)
    THEN [pc |-> "uncaught", notices |-> NoNotices]
    ELSE [pc |-> "done", notices |-> NoticesOf(filter_dataframe(f, c, sd, kw), t)]

\* Lines 343-379: build the frame, stop on an empty one, filter, render.
Render ==
    /\ pc = "fetched"
    /\ \E f \in build_dataframe([i \in 1..Len(result.rows) |-> RowOf(result.rows[i])]) :
         IF f = <<>>
         THEN /\ pc' = "nodata"
              /\ notices' = NoNotices
         ELSE \E o \in {RenderOutcome(f, w[1], w[2], w[3], w[4]) : w \in RenderInputs} :
                /\ pc' = o.pc
                /\ notices' = o.notices
    /\ UNCHANGED <<API_KEY, page_size, max_pages, clicked_refresh, cache, clock,
                   source, p, acc, total, result, err, events, served, hist, dropped,
                   runs, ticks, normVars, viewVars>>

Next ==
    \/ Tick
    \/ Rerun
    \/ CheckKey
    \/ Refresh
    \/ CallFetch
    \/ FetchPage
    \/ Return
    \/ Render

Spec == Init /\ [][Next]_vars

---------------------------------------------------------------------------
(***************************************************************************)
(* Properties of Spec.                                                     *)
(***************************************************************************)
IsReq(ev) == ev.e = "req"

\* The pages requested in this script run, in the order of the requests.
ReqPages == LET rq == SelectSeq(events, IsReq) IN [i \in 1..Len(rq) |-> rq[i].page]

\* This run went to the network and its fetch_all_rows call has returned.
FetchedNow == events # <<>> /\ events[Len(events)].e = "store"

IsShort(n) == n < page_size

\* C1: an uncached fetch requests pages 1, 2, 3, ... in this order, one at a
\* time; never more than max_pages of them; no page after a page that came
\* back with fewer rows than page_size (an empty page included); and it ends
\* only after such a page or after page max_pages.
C1_PagesInOrderUntilShort ==
    /\ \A i \in 1..Len(ReqPages) : ReqPages[i] = i
    /\ Len(ReqPages) <= max_pages
    /\ \A i \in 1..Len(served) : IsShort(served[i]) => Len(ReqPages) = i
    /\ pc = "loop" => p = Len(ReqPages) + 1 /\ Len(served) = Len(ReqPages)
    /\ (pc = "return" \/ FetchedNow) =>
          /\ Len(ReqPages) >= 1
          /\ Len(served) = Len(ReqPages)
          /\ IsShort(served[Len(served)]) \/ Len(ReqPages) = max_pages

\* A fetch that stopped after one short page although more pages were allowed.
C1_Witness ==
    /\ pc = "fetched"
    /\ FetchedNow
    /\ page_size = MaxPageSize
    /\ max_pages = MaxMaxPages
    /\ ReqPages = <<1>>
    /\ served = <<1>>

\* C2: from a source that holds n rows and serves them as consecutive pages,
\* fetch_all_rows returns rows 1..n, each once and in this order, with total
\* n, when the data ends within max_pages pages, and the first
\* max_pages * page_size rows otherwise.
C2_AllRowsInOrder ==
    (source.table /\ result.set) =>
        /\ result.rows = RowsFrom(1, Min(source.n, max_pages * page_size))
        /\ result.total = Len(result.rows)

\* Three rows arrived as a full page and a short one.
C2_Witness ==
    /\ pc = "fetched"
    /\ FetchedNow
    /\ source = Table(3)
    /\ served = <<2, 1>>
    /\ result.rows = <<1, 2, 3>>

HasStore == \E i \in 1..Len(events) : events[i].e = "store"

\* In this state the last page request was answered with a failure.
FailedAtLast ==
    /\ events # <<>>
    /\ events[Len(events)].e = "req"
    /\ events[Len(events)].code \in BadCodes
    /\ events[Len(events)].page = Len(ReqPages)

C3_State ==
    /\ \A i \in 1..Len(events) :
          (events[i].e = "req" /\ events[i].code \in BadCodes) =>
              /\ i = Len(events)
              /\ pc = "error"
              /\ err = events[i].code
    /\ pc = "error" =>
          /\ FailedAtLast
          /\ ~result.set
          /\ ~HasStore
          /\ notices = NoNotices

\* C3: when the request for page k fails (transport or HTTP failure, or a
\* RESULT code other than INFO-000), the run ends in the error state with
\* that code: nothing is returned or cached, page k was requested once and
\* is the last request, and the run does nothing more (no table, no
\* further request) until the next script run.
C3_FailureAbortsFetch ==
    /\ []C3_State
    /\ [][pc = "error" => (pc' \in {"error", "check_key"} /\ (pc' = "error" => events' = events))]_vars

\* The second page failed after the first had delivered its rows.
C3_Witness ==
    /\ pc = "error"
    /\ ReqPages = <<1, 2>>
    /\ acc # <<>>
    /\ err = "INFO-200"

\* What the cache window of the tuple promises at time t: a network fetch
\* of this tuple completed less than TTL seconds ago and nothing was
\* refreshed since.
InWindow(k, t) == hist[k].done /\ t - hist[k].at < TTL

\* C4: a call inside the cache window of its tuple issues no page request
\* and returns the result of the fetch that opened the window; a call
\* outside of it (after a refresh, after the ttl, or the first one) starts a
\* new request sequence at page 1.
C4_OneFetchPerWindow ==
    [][pc = "call" =>
          IF InWindow(ThisKey, clock)
          THEN /\ pc' = "fetched"
               /\ result' = hist[ThisKey].value
               /\ ~\E i \in 1..Len(events') : events'[i].e = "req"
          ELSE /\ pc' = "loop"
               /\ p' = 1
               /\ result' = NoResult]_vars

\* The second run, 599 seconds after the first, got the first run's result.
C4_Witness ==
    /\ pc = "fetched"
    /\ runs = 2
    /\ ~clicked_refresh
    /\ clock = TTL - 1
    /\ ReqPages = <<>>
    /\ result.set
    /\ result.fetched_at = 0
    /\ result.rows # <<>>

\* C5: without an API key (None or "") the run halts before any page
\* request and before the cache is read, cleared or written.
C5_NoKeyNoFetch ==
    ~Truthy(API_KEY) =>
        /\ events = <<>>
        /\ pc \in {"idle", "check_key", "halt_nokey"}
        /\ cache = EmptyCache
        /\ ~result.set

\* The run halted on an empty key although refresh was clicked.
C5_Witness ==
    /\ pc = "halt_nokey"
    /\ API_KEY = Str(<<>>)
    /\ clicked_refresh

C8_State ==
    /\ (clicked_refresh /\ pc = "call") =>
          /\ \A k \in CacheKeys : ~cache[k].present
          /\ events = <<Ev("clear", 0, "")>>
    /\ (clicked_refresh /\ Len(events) >= 2) =>
          /\ events[1].e = "clear"
          /\ events[2].e = "miss"
    /\ (clicked_refresh /\ ThisKey \in dropped /\ pc = "fetched") => ReqPages # <<>> /\ ReqPages[1] = 1

\* C8: a refresh empties the cache for every tuple before the run's fetch,
\* so the fetch that follows goes to the network from page 1 also for a
\* tuple that was cached; any other step leaves the entries of all tuples
\* but the current one as they are.
C8_RefreshClearsAll ==
    /\ []C8_State
    /\ [][pc # "refresh" => \A k \in CacheKeys \ {ThisKey} : cache'[k] = cache[k]]_vars

\* A refreshed run went to the network for a tuple whose entry, stored less
\* than ttl ago, the refresh had dropped.
C8_Witness ==
    /\ pc = "fetched"
    /\ clicked_refresh
    /\ ThisKey \in dropped
    /\ FetchedNow
    /\ clock < TTL

SomeRequestFailed ==
    \E i \in 1..Len(events) : events[i].e = "req" /\ events[i].code \in BadCodes

\* C9: a fetch with zero rows ends in the no-data state, a filter result
\* with zero rows ends with the notice in each view, and a run ends in a
\* failure (an exception shown to the user) only when a page request failed.
C9_EmptyIsNotFailure ==
    /\ (pc \in Terminal /\ result.set /\ result.rows = <<>>) => pc = "nodata"
    /\ pc = "nodata" => (result.set /\ ~SomeRequestFailed)
    /\ (pc = "done" /\ notices.full) => (notices.week /\ notices.month)
    /\ pc \in {"error", "uncaught"} => SomeRequestFailed

---------------------------------------------------------------------------
(***************************************************************************)
(* NormSpec: one raw record through build_dataframe and render_table.      *)
(***************************************************************************)
BadDate == Str(<<"n", "/", "a">>)

NormRaws ==
    [ BILL_NAME          : {None, Str(<<>>), Str(<<" ">>), Str(<<"a">>)},
      PROPOSE_DT         : {None, Str(<<>>), BadDate, DateStr("2024-06-05")},
      RST_PROPOSER       : {None, Str(<<>>), Str(<<"b">>)},
      PROPOSER           : {None, Str(<<"a">>)},
      CMT_PRESENT_DT     : {None, DateStr("2024-06-15")},
      CMT_PROC_DT        : {None, BadDate},
      CMT_PROC_RESULT_CD : {None, Str(<<"a">>)},
      DETAIL_LINK        : {None, Str(<<>>), Str(<<" ">>), Str(<<"u">>), Num(5)},
      BILL_ID            : {None, Str(<<>>), Str(<<"7">>)},
      COMMITTEE          : {None, CmteA} ]

NormInit ==
    /\ pc = "raw"
    /\ raw \in NormRaws
    /\ row = BuildRow(Raw(None, None, None, None), 0)
    /\ shown = display_row(BuildRow(Raw(None, None, None, None), 0))
    /\ FetchIdle
    /\ ViewIdle

\* build_dataframe on the one record
Normalize ==
    /\ pc = "raw"
    /\ \E f \in build_dataframe(<<raw>>) : row' = f[1]
    /\ pc' = "built"
    /\ UNCHANGED <<raw, shown, fetchVarsButPc, notices, viewVars>>

\* render_table on the one-row frame
Show ==
    /\ pc = "built"
    /\ shown' = display_row(row)
    /\ pc' = "shown"
    /\ UNCHANGED <<raw, row, fetchVarsButPc, notices, viewVars>>

NormNext == Normalize \/ Show

NormSpec == NormInit /\ [][NormNext]_vars

DisplayedFields == {"name", "proposed", "sponsor", "cmt_present", "cmt_proc", "cmt_result", "link"}

\* A cell that holds a string of at least one character ("-" is one).
Filled(v) == IsStr(v) /\ v.s # <<>>

\* C6: every field of the row that a raw record is turned into holds a
\* non-empty value or the placeholder "-", never a null and never an empty
\* string, and the link is "-" when the record has neither a link nor a
\* bill id.  Stated of the row as render_table shows it, where the nulls of
\* build_dataframe have already been replaced.
C6_EveryFieldFilled ==
    pc = "shown" =>
        /\ \A k \in DisplayedFields : Filled(shown[k])
        /\ (~Truthy(Get(raw, "DETAIL_LINK")) /\ ~Truthy(Get(raw, "BILL_ID"))) =>
               shown.link = PLACEHOLDER

---------------------------------------------------------------------------
(***************************************************************************)
(* ViewSpec: lines 346-377 on a small list of fetched rows.                *)
(***************************************************************************)
MaxFrameRows == 2

ViewDates == {"2024-05-29", "2024-05-30", "2024-06-03", "2024-06-05", "2024-06-15"}

ViewRaws ==
    {Raw(n, DateStr(d), None, CmteA) :
        n \in {Str(<<"a", "B">>), Str(<<"b", ".">>)}, d \in ViewDates}
    \cup {Raw(None, DateStr("2024-06-05"), Str(<<"a", "b">>), CmteA),
          Raw(Str(<<"(", "a">>), DateStr("2024-06-05"), None, CmteB),
          Raw(Str(<<"b">>), None, None, CmteA),
          Raw(Str(<<"a">>), DateStr("2024-06-05"), Str(<<"B">>), None)}

RECURSIVE SeqsUpTo(_, _)
SeqsUpTo(S, n) ==
    IF n = 0 THEN {<<>>}
    ELSE SeqsUpTo(S, n - 1) \cup {Append(q, x) : q \in SeqsUpTo(S, n - 1), x \in S}

ViewInit ==
    /\ pc = "fetched"
    /\ rawRows \in SeqsUpTo(ViewRaws, MaxFrameRows)
    /\ df_all = <<>>
    /\ committee = Str(<<>>)
    /\ start_date = None
    /\ search_kw = Str(<<>>)
    /\ df = <<>>
    /\ now = Ts(0, 0)
    /\ df_week = <<>>
    /\ buckets = <<>>
    /\ df_full = <<>>
    /\ FetchIdle
    /\ NormIdle

\* Lines 346-349.
Build ==
    /\ pc = "fetched"
    /\ df_all' \in build_dataframe(rawRows)
    /\ pc' = IF df_all' = <<>> THEN "nodata" ELSE "built"
    /\ UNCHANGED <<rawRows, committee, start_date, search_kw, df, now, df_week, buckets,
                   df_full, fetchVarsButPc, notices, normVars>>

\* Line 351, with the widget values of lines 61-65.
Filter ==
    /\ pc = "built"
    /\ committee' \in Committees
    /\ start_date' \in StartDates
    /\ search_kw' \in Keywords
    /\ IF filter_raises(df_all, committee', start_date', search_kw')
       THEN /\ pc' = "uncaught"
            /\ UNCHANGED df
       ELSE /\ pc' = "filtered"
            /\ df' = filter_dataframe(df_all, committee', start_date', search_kw')
    /\ UNCHANGED <<rawRows, df_all, now, df_week, buckets, df_full,
                   fetchVarsButPc, notices, normVars>>

\* Lines 354-377.
Views ==
    /\ pc = "filtered"
    /\ now' \in Nows
    /\ df_week' = week_view(df, now')
    /\ buckets' = IF df = <<>> THEN <<>> ELSE month_buckets(df)
    /\ df_full' = df
    /\ notices' = NoticesOf(df, now')
    /\ pc' = "done"
    /\ UNCHANGED <<rawRows, df_all, committee, start_date, search_kw, df,
                   fetchVarsButPc, normVars>>

ViewNext == Build \/ Filter \/ Views

ViewSpec == ViewInit /\ [][ViewNext]_vars

\* kw occurs in text as it stands, letter case aside.
LiteralContains(text, kw) ==
    \E i \in 1..(Len(text) + 1) :
        /\ i + Len(kw) - 1 <= Len(text)
        /\ \A j \in 1..Len(kw) : Lower(kw[j]) = Lower(text[i + j - 1])

\* The rows of frame that the three filters of the specification keep.
LiteralFilter(frame, cmt, start, kw) ==
    LET start_ts == IF Truthy(start) THEN start ELSE K22_START
        Keep(r) ==
            /\ Truthy(cmt) => r.committee = cmt
            /\ GE(r.proposed, start_ts)
            /\ Truthy(kw) => \/ LiteralContains(FillStr(r.name), kw.s)
                             \/ LiteralContains(FillStr(r.sponsor), kw.s)
    IN SelectSeq(frame, Keep)

\* C7: for every frame, committee, start date and keyword, filter_dataframe
\* does not fail and returns, in the frame's order and unaltered, exactly
\* the rows whose committee equals the given one (if one is given), whose
\* proposal date is not before the start date (2024-05-30 if none is
\* given), and whose name or sponsor contains the keyword as a literal
\* substring, letter case aside (if one is given).
C7_FilterIsLiteral ==
    pc \in {"uncaught", "filtered", "done"} =>
        /\ pc # "uncaught"
        /\ df = LiteralFilter(df_all, committee, start_date, search_kw)

\* The rows of frame proposed in the seven days up to t.
LastWeek(frame, t) ==
    LET Within(r) ==
            /\ r.proposed.kind = "ts"
            /\ TsLE(one_week_ago(t), r.proposed)
            /\ TsLE(r.proposed, t)
    IN SelectSeq(frame, Within)

\* The rows of all buckets, one bucket after the other.
RECURSIVE Flatten(_)
Flatten(bs) == IF bs = <<>> THEN <<>> ELSE Head(bs).rows \o Flatten(Tail(bs))

\* Every row of frame is in exactly one bucket, the bucket of its month,
\* and later months come first.
PartitionByMonth(bs, frame) ==
    /\ Len(Flatten(bs)) = Len(frame)
    /\ \A i \in 1..Len(frame) :
          \E b \in 1..Len(bs) :
              /\ bs[b].ym = PeriodKey(frame[i].proposed)
              /\ \E j \in 1..Len(bs[b].rows) : bs[b].rows[j] = frame[i]
    /\ \A b \in 1..Len(bs) :
          /\ bs[b].rows # <<>>
          /\ \A j \in 1..Len(bs[b].rows) : PeriodKey(bs[b].rows[j].proposed) = bs[b].ym
    /\ \A a, b \in 1..Len(bs) : a < b => bs[a].ym > bs[b].ym

\* C10: the week view holds exactly the filtered rows proposed not before
\* now - 7 days and not after now; the monthly buckets partition the
\* filtered rows by year and month, latest month first; the full view is
\* the filtered set.
C10_ViewsOfFilteredSet ==
    pc = "done" =>
        /\ df_week = LastWeek(df, now)
        /\ PartitionByMonth(buckets, df)
        /\ df_full = df

=============================================================================
